---------------------------- MODULE Spec2Model ----------------------------
(***************************************************************************)
(* Model of src/src/server-http.ts: the tool registry (toolHandlers), the  *)
(* nine HTTP tool handlers, the nine operations registered on mcpServer    *)
(* with their zod schemas, and the POST /mcp request handler.              *)
(*                                                                         *)
(* A connection slot holds one request from acceptance to response.  The   *)
(* tool units (getProducts.execute, ...) and the remote GraphQL endpoint   *)
(* are outside the file: an executor invocation is a suspension point that *)
(* ends with a returned JSON value or with a thrown value.                 *)
(***************************************************************************)
EXTENDS Integers, Sequences, FiniteSets, TLC

VARIABLES toolHandlers, conn

vars == <<toolHandlers, conn>>

---------------------------------------------------------------------------
(* Bounds of the model.                                                    *)

\* concurrent connections of the specification Spec
NReq == 1
\* concurrent connections of the specification SpecConc
NConc == 2

---------------------------------------------------------------------------
(* JavaScript / JSON values.                                               *)

Undef == [t |-> "undefined"]
Null == [t |-> "null"]
Str(s) == [t |-> "string", s |-> s]
Num(n) == [t |-> "number", n |-> n]
Bool(b) == [t |-> "boolean", b |-> b]
Arr(items) == [t |-> "array", items |-> items]
Obj(f) == [t |-> "object", f |-> f]
EmptyObj == Obj(<<>>)
\* a slot field that holds nothing yet
None == [t |-> "none"]

\* typeof v === 'object' (null, arrays and objects)
TypeofObject(v) == v.t \in {"null", "array", "object"}

\* JavaScript truthiness of a JSON value
Truthy(v) ==
  CASE v.t = "undefined" -> FALSE
    [] v.t = "null" -> FALSE
    [] v.t = "string" -> v.s # ""
    [] v.t = "number" -> v.n # 0
    [] v.t = "boolean" -> v.b
    [] OTHER -> TRUE

\* v.k (v?.k for the handlers, which only ever read a non-null value): an own
\* field of an object, undefined on anything else JSON can carry
Prop(v, k) == IF v.t = "object" /\ k \in DOMAIN v.f THEN v.f[k] ELSE Undef

\* the keys of an object value (no keys on anything else)
Keys(v) == IF v.t = "object" THEN DOMAIN v.f ELSE {}

\* a || b
OrElse(a, b) == IF Truthy(a) THEN a ELSE b

\* a ?? b, wrongly written a || b
CoalesceAsOr(a, b) == IF Truthy(a) THEN a ELSE b

\* a ?? b
Coalesce(a, b) == IF a.t \in {"undefined", "null"} THEN b ELSE a

DigitChars == <<"0", "1", "2", "3", "4", "5", "6", "7", "8", "9">>

RECURSIVE NumToString(_)
\* String(n) for an integer
NumToString(n) ==
  IF n < 0 THEN "-" \o NumToString(0 - n)
  ELSE IF n < 10 THEN DigitChars[n + 1]
  ELSE NumToString(n \div 10) \o DigitChars[(n % 10) + 1]

\* an Error-like object: message and stack
ErrorObj(kind, msg) ==
  Obj("message" :> Str(msg) @@ "stack" :> Str(kind \o ": " \o msg \o " at <frames>"))

\* a coercion to a string that completed with the string s
Coerced(s) == [k |-> "return", s |-> s]

\* a coercion to a string that threw
CoercionThrows ==
  [k |-> "throw", e |-> ErrorObj("TypeError", "Cannot convert object to primitive value")]

RECURSIVE ToStr(_)
RECURSIVE JoinItems(_, _)
\* the coercion of `${v}` and of a property key.  An object parsed from JSON
\* has no callable member: one with an own toString member hides
\* Object.prototype.toString, valueOf (own or inherited) gives no primitive
\* either, and the coercion throws; any other object is "[object Object]".
\* An array is its join(",").
ToStr(v) ==
  CASE v.t = "string" -> Coerced(v.s)
    [] v.t = "number" -> Coerced(NumToString(v.n))
    [] v.t = "boolean" -> Coerced(IF v.b THEN "true" ELSE "false")
    [] v.t = "null" -> Coerced("null")
    [] v.t = "undefined" -> Coerced("undefined")
    [] v.t = "array" -> JoinItems(v.items, 1)
    [] v.t = "object" ->
         IF "toString" \in DOMAIN v.f THEN CoercionThrows ELSE Coerced("[object Object]")

\* Array.prototype.join(",") from item i on: null and undefined items are
\* empty, the others are coerced from left to right and the first throw ends
\* the join
JoinItems(items, i) ==
  IF i > Len(items) THEN Coerced("")
  ELSE LET head == IF items[i].t \in {"null", "undefined"} THEN Coerced("")
                   ELSE ToStr(items[i])
       IN IF head.k = "throw" THEN head
          ELSE LET rest == JoinItems(items, i + 1)
               IN IF rest.k = "throw" THEN rest
                  ELSE Coerced(head.s \o (IF i < Len(items) THEN "," ELSE "") \o rest.s)

\* a function value (a registered handler closure or a built-in method)
Fn(kind, id) == [t |-> "function", kind |-> kind, id |-> id]

RECURSIVE JsonWire(_)
\* what the client reads back from res.json(v), i.e. JSON.parse(JSON.stringify(v)):
\* undefined and function members of objects are omitted, in arrays they
\* become null; undefined itself is sent as an empty body
JsonWire(v) ==
  CASE v.t = "object" ->
         Obj([k \in {x \in DOMAIN v.f : v.f[x].t \notin {"undefined", "function"}}
                |-> JsonWire(v.f[k])])
    [] v.t = "array" ->
         Arr([i \in DOMAIN v.items |->
                IF v.items[i].t \in {"undefined", "function"} THEN Null
                ELSE JsonWire(v.items[i])])
    [] v.t = "function" -> Undef
    [] OTHER -> v

RECURSIVE Stringify(_)
RECURSIVE StringifyItems(_, _)
RECURSIVE StringifyMembers(_, _)
\* JSON.stringify(v) of a JSON value made of characters that need no escape;
\* the result is a string value, or undefined for undefined
Stringify(v) ==
  CASE v.t = "string" -> Str("\"" \o v.s \o "\"")
    [] v.t = "number" -> Str(NumToString(v.n))
    [] v.t = "boolean" -> Str(IF v.b THEN "true" ELSE "false")
    [] v.t = "null" -> Str("null")
    [] v.t = "array" -> Str("[" \o StringifyItems(v.items, 1) \o "]")
    [] v.t = "object" -> Str("{" \o StringifyMembers(v.f, DOMAIN v.f) \o "}")
    [] OTHER -> Undef

StringifyItems(items, i) ==
  IF i > Len(items) THEN ""
  ELSE LET one == Stringify(items[i])
           txt == IF one = Undef THEN "null" ELSE one.s
       IN txt \o (IF i < Len(items) THEN "," ELSE "") \o StringifyItems(items, i + 1)

\* the members of an object; the results of the model have at most one key,
\* so the order of the keys does not arise
StringifyMembers(f, keys) ==
  IF keys = {} THEN ""
  ELSE LET k == CHOOSE x \in keys : TRUE
           one == Stringify(f[k])
           rest == StringifyMembers(f, keys \ {k})
       IN IF one = Undef THEN rest
          ELSE "\"" \o k \o "\":" \o one.s \o (IF rest = "" THEN "" ELSE "," \o rest)

---------------------------------------------------------------------------
(* The tool registry (toolHandlers) and the nine registerTool calls.       *)

\* index of name among the own keys of the registry, 0 when absent
KeyIndex(reg, name) ==
  IF \E i \in DOMAIN reg : reg[i].name = name
  THEN CHOOSE i \in DOMAIN reg : reg[i].name = name
  ELSE 0

\* toolHandlers[name] = handler: a new key is appended (own keys keep their
\* insertion order), an existing key keeps its place and gets the new handler
registerTool(reg, name, handler) ==
  IF KeyIndex(reg, name) = 0
  THEN Append(reg, [name |-> name, handler |-> handler])
  ELSE [reg EXCEPT ![KeyIndex(reg, name)].handler = handler]

\* the registerTool calls with a copy-paste slip: the last tool is registered
\* under the name of the first
StartupRegistrationsShadowed ==
  << <<"get-products", "getProducts">>,
     <<"get-product-by-id", "getProductById">>,
     <<"get-customers", "getCustomers">>,
     <<"get-orders", "getOrders">>,
     <<"get-order-by-id", "getOrderById">>,
     <<"update-order", "updateOrder">>,
     <<"get-customer-orders", "getCustomerOrders">>,
     <<"update-customer", "updateCustomer">>,
     <<"get-products", "createProduct">> >>

\* the registerTool calls of the module body, in order: the name and the tool
\* unit whose execute the registered closure calls
StartupRegistrations ==
  << <<"get-products", "getProducts">>,
     <<"get-product-by-id", "getProductById">>,
     <<"get-customers", "getCustomers">>,
     <<"get-orders", "getOrders">>,
     <<"get-order-by-id", "getOrderById">>,
     <<"update-order", "updateOrder">>,
     <<"get-customer-orders", "getCustomerOrders">>,
     <<"update-customer", "updateCustomer">>,
     <<"create-product", "createProduct">> >>

RECURSIVE RegisterAll(_, _)
\* the registry after the first n startup registrations
RegisterAll(regs, n) ==
  IF n = 0 THEN <<>>
  ELSE registerTool(RegisterAll(regs, n - 1), regs[n][1], regs[n][2])

\* toolHandlers when the server starts to listen
StartupRegistry == RegisterAll(StartupRegistrations, Len(StartupRegistrations))

\* Object.keys(toolHandlers)
ObjectKeys(reg) == [i \in DOMAIN reg |-> reg[i].name]

\* the names Object.prototype gives every plain object such as toolHandlers
ObjectPrototypeKeys ==
  {"constructor", "toString", "toLocaleString", "valueOf", "hasOwnProperty",
   "isPrototypeOf", "propertyIsEnumerable", "__proto__", "__defineGetter__",
   "__defineSetter__", "__lookupGetter__", "__lookupSetter__"}

\* toolHandlers[key]: an own key gives the registered closure; any other key is
\* looked up on Object.prototype, since toolHandlers is the literal {}
Lookup(reg, key) ==
  IF KeyIndex(reg, key) # 0 THEN Fn("handler", reg[KeyIndex(reg, key)].handler)
  ELSE IF key = "__proto__" THEN [t |-> "prototype"]
  ELSE IF key \in ObjectPrototypeKeys THEN Fn("builtin", key)
  ELSE Undef

\* toolHandlers itself as a value: its members are functions
RegistryValue(reg) ==
  Obj([k \in {reg[i].name : i \in DOMAIN reg} |-> Fn("handler", reg[KeyIndex(reg, k)].handler)])

---------------------------------------------------------------------------
(* The closures given to registerTool: what each passes to execute.        *)

\* the closures with `args?.limit || 10` in place of `args?.limit ?? 10`
HandlerInputLimitOr(handler, args) ==
  CASE handler = "getProducts" ->
         Obj("searchTitle" :> Prop(args, "searchTitle")
             @@ "limit" :> CoalesceAsOr(Prop(args, "limit"), Num(10)))
    [] handler = "getCustomers" ->
         Obj("searchQuery" :> Prop(args, "searchQuery")
             @@ "limit" :> CoalesceAsOr(Prop(args, "limit"), Num(10)))
    [] handler = "getOrders" ->
         Obj("status" :> Coalesce(Prop(args, "status"), Str("any"))
             @@ "limit" :> CoalesceAsOr(Prop(args, "limit"), Num(10)))
    [] handler = "getCustomerOrders" ->
         Obj("customerId" :> Prop(args, "customerId")
             @@ "limit" :> CoalesceAsOr(Prop(args, "limit"), Num(10)))
    [] OTHER -> args

\* the value the closure registered for `handler` passes to <unit>.execute when
\* it is called with args (processedArgs, or args itself)
HandlerInput(handler, args) ==
  CASE handler = "getProducts" ->
         Obj("searchTitle" :> Prop(args, "searchTitle")
             @@ "limit" :> Coalesce(Prop(args, "limit"), Num(10)))
    [] handler = "getCustomers" ->
         Obj("searchQuery" :> Prop(args, "searchQuery")
             @@ "limit" :> Coalesce(Prop(args, "limit"), Num(10)))
    [] handler = "getOrders" ->
         Obj("status" :> Coalesce(Prop(args, "status"), Str("any"))
             @@ "limit" :> Coalesce(Prop(args, "limit"), Num(10)))
    [] handler = "getCustomerOrders" ->
         Obj("customerId" :> Prop(args, "customerId")
             @@ "limit" :> Coalesce(Prop(args, "limit"), Num(10)))
    [] OTHER -> args

\* what a closure resolves to when execute returned result
HandlerResult(result) ==
  Obj("content" :> Arr(<< Obj("type" :> Str("text") @@ "text" :> Stringify(result)) >>))

---------------------------------------------------------------------------
(* The schemas given to mcpServer.tool, and zod's parse of an argument     *)
(* object against them.                                                    *)

ZString(min, pattern) == [k |-> "string", min |-> min, pattern |-> pattern]
ZNumber == [k |-> "number"]
ZBoolean == [k |-> "boolean"]
ZEnum(vals) == [k |-> "enum", vals |-> vals]
ZArray(of) == [k |-> "array", of |-> of]
ZObject(shape) == [k |-> "object", shape |-> shape]
ZOptional(inner) == [k |-> "optional", inner |-> inner]
ZDefault(inner, def) == [k |-> "default", inner |-> inner, def |-> def]

\* z.array(z.object({ id?, namespace?, key?, value, type? }))
MetafieldsSchema ==
  ZArray(ZObject("id" :> ZOptional(ZString(0, "none"))
                 @@ "namespace" :> ZOptional(ZString(0, "none"))
                 @@ "key" :> ZOptional(ZString(0, "none"))
                 @@ "value" :> ZString(0, "none")
                 @@ "type" :> ZOptional(ZString(0, "none"))))

\* the raw shape given to mcpServer.tool for each tool name
McpSchema(name) ==
  CASE name = "get-products" ->
         "searchTitle" :> ZOptional(ZString(0, "none"))
         @@ "limit" :> ZDefault(ZNumber, Num(10))
    [] name = "get-product-by-id" ->
         "productId" :> ZString(1, "none")
    [] name = "get-customers" ->
         "searchQuery" :> ZOptional(ZString(0, "none"))
         @@ "limit" :> ZDefault(ZNumber, Num(10))
    [] name = "get-orders" ->
         "status" :> ZDefault(ZEnum({"any", "open", "closed", "cancelled"}), Str("any"))
         @@ "limit" :> ZDefault(ZNumber, Num(10))
    [] name = "get-order-by-id" ->
         "orderId" :> ZString(1, "none")
    [] name = "update-order" ->
         "id" :> ZString(1, "none")
         @@ "tags" :> ZOptional(ZArray(ZString(0, "none")))
         @@ "email" :> ZOptional(ZString(0, "email"))
         @@ "note" :> ZOptional(ZString(0, "none"))
         @@ "customAttributes" :>
              ZOptional(ZArray(ZObject("key" :> ZString(0, "none")
                                       @@ "value" :> ZString(0, "none"))))
         @@ "metafields" :> ZOptional(MetafieldsSchema)
         @@ "shippingAddress" :>
              ZOptional(ZObject([f \in {"address1", "address2", "city", "company",
                                        "country", "firstName", "lastName", "phone",
                                        "province", "zip"}
                                   |-> ZOptional(ZString(0, "none"))]))
    [] name = "get-customer-orders" ->
         "customerId" :> ZString(0, "digits")
         @@ "limit" :> ZDefault(ZNumber, Num(10))
    [] name = "update-customer" ->
         "id" :> ZString(0, "digits")
         @@ "firstName" :> ZOptional(ZString(0, "none"))
         @@ "lastName" :> ZOptional(ZString(0, "none"))
         @@ "email" :> ZOptional(ZString(0, "email"))
         @@ "phone" :> ZOptional(ZString(0, "none"))
         @@ "tags" :> ZOptional(ZArray(ZString(0, "none")))
         @@ "note" :> ZOptional(ZString(0, "none"))
         @@ "taxExempt" :> ZOptional(ZBoolean)
         @@ "metafields" :> ZOptional(MetafieldsSchema)
    [] name = "create-product" ->
         "title" :> ZString(1, "none")
         @@ "descriptionHtml" :> ZOptional(ZString(0, "none"))
         @@ "vendor" :> ZOptional(ZString(0, "none"))
         @@ "productType" :> ZOptional(ZString(0, "none"))
         @@ "tags" :> ZOptional(ZArray(ZString(0, "none")))
         @@ "status" :> ZDefault(ZEnum({"ACTIVE", "DRAFT", "ARCHIVED"}), Str("DRAFT"))

\* the tool unit whose execute the callback given to mcpServer.tool calls
McpUnit(name) ==
  CASE name = "get-products" -> "getProducts"
    [] name = "get-product-by-id" -> "getProductById"
    [] name = "get-customers" -> "getCustomers"
    [] name = "get-orders" -> "getOrders"
    [] name = "get-order-by-id" -> "getOrderById"
    [] name = "update-order" -> "updateOrder"
    [] name = "get-customer-orders" -> "getCustomerOrders"
    [] name = "update-customer" -> "updateCustomer"
    [] name = "create-product" -> "createProduct"

\* the names given to mcpServer.tool
McpToolNames ==
  {"get-products", "get-product-by-id", "get-customers", "get-orders",
   "get-order-by-id", "update-order", "get-customer-orders", "update-customer",
   "create-product"}

\* the characters of the strings that reach a pattern of a schema
Chars(s) ==
  CASE s = "" -> <<>>
    [] s = "abc" -> <<"a", "b", "c">>
    [] s = "12345" -> <<"1", "2", "3", "4", "5">>
    [] s = "a@b.com" -> <<"a", "@", "b", ".", "c", "o", "m">>
    [] s = "not-an-email" ->
         <<"n", "o", "t", "-", "a", "n", "-", "e", "m", "a", "i", "l">>

\* /^\d+$/
MatchesDigits(s) ==
  LET c == Chars(s)
  IN Len(c) >= 1 /\ \A i \in DOMAIN c : \E d \in DOMAIN DigitChars : c[i] = DigitChars[d]

\* zod's e-mail format, as far as the strings of the model need it: one "@"
\* after a non-empty local part, and a dot inside the domain that leaves a
\* top-level label of two characters or more
MatchesEmail(s) ==
  LET c == Chars(s)
  IN /\ Cardinality({i \in DOMAIN c : c[i] = "@"}) = 1
     /\ \E i \in DOMAIN c :
          /\ c[i] = "@"
          /\ i > 1
          /\ \E j \in DOMAIN c : j > i + 1 /\ c[j] = "." /\ j + 2 <= Len(c)

ZOk(v) == [ok |-> TRUE, v |-> v]
ZBad == [ok |-> FALSE, v |-> Undef]

RECURSIVE ZodParse(_, _)
\* schema.safeParse(v): whether v is valid, and the parsed value.  An object
\* keeps the declared keys that were supplied or got a default, and drops
\* every other key (z.object strips unknown keys)
ZodParse(ty, v) ==
  CASE ty.k = "optional" -> IF v = Undef THEN ZOk(Undef) ELSE ZodParse(ty.inner, v)
    [] ty.k = "default" -> IF v = Undef THEN ZOk(ty.def) ELSE ZodParse(ty.inner, v)
    [] ty.k = "string" ->
         IF v.t # "string" THEN ZBad
         ELSE IF Len(v.s) < ty.min THEN ZBad
         ELSE IF ty.pattern = "digits" /\ ~MatchesDigits(v.s) THEN ZBad
         ELSE IF ty.pattern = "email" /\ ~MatchesEmail(v.s) THEN ZBad
         ELSE ZOk(v)
    [] ty.k = "number" -> IF v.t = "number" THEN ZOk(v) ELSE ZBad
    [] ty.k = "boolean" -> IF v.t = "boolean" THEN ZOk(v) ELSE ZBad
    [] ty.k = "enum" -> IF v.t = "string" /\ v.s \in ty.vals THEN ZOk(v) ELSE ZBad
    [] ty.k = "array" ->
         IF v.t # "array" THEN ZBad
         ELSE IF \A i \in DOMAIN v.items : ZodParse(ty.of, v.items[i]).ok
              THEN ZOk(Arr([i \in DOMAIN v.items |-> ZodParse(ty.of, v.items[i]).v]))
              ELSE ZBad
    [] ty.k = "object" ->
         IF v.t # "object" THEN ZBad
         ELSE IF \A f \in DOMAIN ty.shape : ZodParse(ty.shape[f], Prop(v, f)).ok
              THEN ZOk(Obj([f \in {x \in DOMAIN ty.shape :
                                     x \in DOMAIN v.f
                                     \/ ZodParse(ty.shape[x], Prop(v, x)).v # Undef}
                              |-> ZodParse(ty.shape[f], Prop(v, f)).v]))
              ELSE ZBad

---------------------------------------------------------------------------
(* The POST /mcp route handler, up to its first suspension or its response.*)

\* res.status(status).json(body)
Respond(status, body) ==
  [k |-> "respond", status |-> status, body |-> JsonWire(body), calls |-> 0]

\* the route handler is suspended in `await toolHandlers[name](toolArgs)`, the
\* closure of `unit` having called <unit>.execute(input)
Await(unit, input) == [k |-> "await", unit |-> unit, input |-> input, calls |-> 1]

\* an exception leaves the route handler
Unhandled(err) == [k |-> "unhandled", err |-> err, calls |-> 0]

\* the route handler without its outer try/catch
OuterCatchMissing(err) == Unhandled(err)

\* catch (error) { res.status(500).json({ error: error.message }) }
OuterCatch(err) == Respond(500, Obj("error" :> Prop(err, "message")))

\* the inner catch around the tool call: error.message of null or undefined
\* throws a TypeError inside the catch block, which the outer catch receives
InnerCatch(e) ==
  IF e.t \in {"undefined", "null"}
  THEN OuterCatch(ErrorObj("TypeError",
         "Cannot read properties of " \o e.t \o " (reading 'message')"))
  ELSE Respond(500, Obj("error" :> OrElse(Prop(e, "message"), Str("Tool execution failed"))
                        @@ "details" :> Prop(e, "stack")))

\* a method of Object.prototype called on toolHandlers with toolArgs; the
\* methods that take a property key coerce toolArgs to one first, and that
\* coercion may throw
CallBuiltin(key, reg, toolArgs) ==
  CASE key = "constructor" -> [k |-> "return", v |-> toolArgs]
    [] key \in {"toString", "toLocaleString"} ->
         [k |-> "return", v |-> Str("[object Object]")]
    [] key = "valueOf" -> [k |-> "return", v |-> RegistryValue(reg)]
    [] key \in {"hasOwnProperty", "propertyIsEnumerable"} ->
         LET pk == ToStr(toolArgs)
         IN IF pk.k = "throw" THEN pk
            ELSE [k |-> "return", v |-> Bool(KeyIndex(reg, pk.s) # 0)]
    [] key = "isPrototypeOf" -> [k |-> "return", v |-> Bool(FALSE)]
    [] key \in {"__lookupGetter__", "__lookupSetter__"} ->
         LET pk == ToStr(toolArgs)
         IN IF pk.k = "throw" THEN pk ELSE [k |-> "return", v |-> Undef]
    [] key \in {"__defineGetter__", "__defineSetter__"} ->
         [k |-> "throw",
          e |-> ErrorObj("TypeError", "Object.prototype." \o key \o ": Expecting function")]

\* try { const result = await toolHandlers[name](toolArgs); res.json(result) }
\* catch (error) { ... } for the value fn found under the name
CallTool(fn, reg, toolArgs) ==
  IF fn.t = "function" /\ fn.kind = "handler"
  THEN Await(fn.id, HandlerInput(fn.id, toolArgs))
  ELSE IF fn.t = "function"
  THEN LET r == CallBuiltin(fn.id, reg, toolArgs)
       IN [(IF r.k = "return" THEN Respond(200, r.v) ELSE InnerCatch(r.e))
             EXCEPT !.calls = 1]
  ELSE InnerCatch(ErrorObj("TypeError", "toolHandlers[name] is not a function"))

\* const toolArgs = args && typeof args === 'object' ? args : {}
ToolArgs(args) == IF Truthy(args) /\ TypeofObject(args) THEN args ELSE EmptyObj

\* the tools/call branch with the registry lookup ahead of the name test
ToolsCallLookupFirst(reg, params) ==
  LET p == OrElse(params, EmptyObj)
      name == Prop(p, "name")
      args == Prop(p, "arguments")
      pk == ToStr(name)
  IN IF pk.k = "throw" THEN OuterCatch(pk.e)
     ELSE IF ~Truthy(Lookup(reg, pk.s))
     THEN Respond(404, Obj("error" :> Str("Tool '" \o pk.s \o "' not found")))
     ELSE IF ~Truthy(name)
     THEN Respond(400, Obj("error" :> Str("Tool name is required")))
     ELSE CallTool(Lookup(reg, pk.s), reg, ToolArgs(args))

\* the tools/call branch.  toolHandlers[name] coerces the name to a property
\* key outside the inner try: a name whose coercion throws is answered by the
\* outer catch
ToolsCall(reg, params) ==
  LET p == OrElse(params, EmptyObj)
      name == Prop(p, "name")
      args == Prop(p, "arguments")
      pk == ToStr(name)
  IN IF ~Truthy(name)
     THEN Respond(400, Obj("error" :> Str("Tool name is required")))
     ELSE IF pk.k = "throw" THEN OuterCatch(pk.e)
     ELSE IF ~Truthy(Lookup(reg, pk.s))
     THEN Respond(404, Obj("error" :> Str("Tool '" \o pk.s \o "' not found")))
     ELSE CallTool(Lookup(reg, pk.s), reg, ToolArgs(args))

\* the tools/list branch
ToolsList(reg) ==
  Respond(200,
    Obj("tools" :> Arr([i \in DOMAIN ObjectKeys(reg) |->
                          Obj("name" :> Str(ObjectKeys(reg)[i])
                              @@ "description" :>
                                   Str("Shopify " \o ObjectKeys(reg)[i] \o " tool"))])))

\* app.post('/mcp', ...) run on req.body = body until it responds or suspends;
\* destructuring a body that is undefined or null throws a TypeError
RouteSync(reg, body) ==
  IF body.t \in {"undefined", "null"}
  THEN OuterCatch(ErrorObj("TypeError",
         "Cannot destructure property 'method' of 'req.body' as it is " \o body.t \o "."))
  ELSE LET method == Prop(body, "method")
           params == Prop(body, "params")
       IN IF method = Str("tools/list") THEN ToolsList(reg)
          ELSE IF method = Str("tools/call") THEN ToolsCall(reg, params)
          ELSE Respond(400, Obj("error" :> Str("Unknown method")))

---------------------------------------------------------------------------
(* The operations registered on mcpServer: the protocol runtime parses the *)
(* arguments against the tool's schema and calls the callback only with a  *)
(* valid, parsed argument object.  server-http.ts registers the operations *)
(* and attaches no transport itself; McpToolCall is a call made by the     *)
(* runtime that serves mcpServer.                                          *)

\* a call of the operation `name` with rawArgs, until it is rejected or the
\* callback is suspended in execute
McpCallSync(name, rawArgs) ==
  LET parsed == ZodParse(ZObject(McpSchema(name)), rawArgs)
  IN IF parsed.ok THEN Await(McpUnit(name), parsed.v)
     ELSE [k |-> "invalid", calls |-> 0]

---------------------------------------------------------------------------
(* Requests, executor outcomes.                                            *)

\* { name, arguments } with either member left out when it is undefined
Params(name, args) ==
  Obj([k \in ({"name" : x \in {name} \ {Undef}} \cup {"arguments" : x \in {args} \ {Undef}})
         |-> IF k = "name" THEN name ELSE args])

\* { method, params } with either member left out when it is undefined
Body(method, params) ==
  Obj([k \in ({"method" : x \in {method} \ {Undef}} \cup {"params" : x \in {params} \ {Undef}})
         |-> IF k = "method" THEN method ELSE params])

\* `arguments` values sent to every tool name
CommonArgs == {Undef, Null, EmptyObj}

\* `arguments` values sent to one tool name
ArgsOf(name) ==
  CASE name = "get-products" ->
         {Obj("limit" :> Num(5)), Obj("limit" :> Num(0)), Obj("limit" :> Num(10)),
          Obj("searchTitle" :> Str("shirt")),
          Obj("limit" :> Num(5) @@ "extra" :> Str("x")),
          Str("x"), Arr(<<>>)}
    [] name = "get-product-by-id" ->
         {Obj("productId" :> Str("p1")),
          Obj("productId" :> Str("p1") @@ "extra" :> Str("x"))}
    [] name = "get-customers" ->
         {Obj("limit" :> Num(5)), Obj("limit" :> Num(0)),
          Obj("searchQuery" :> Str("bob") @@ "extra" :> Str("x")),
          Str("x")}
    [] name = "get-orders" ->
         {Obj("limit" :> Num(5)), Obj("status" :> Str("open")),
          Obj("status" :> Str("any") @@ "limit" :> Num(10)),
          Obj("status" :> Str("shipped")),
          Obj("limit" :> Num(0) @@ "extra" :> Str("x")),
          Str("x")}
    [] name = "get-order-by-id" ->
         {Obj("orderId" :> Str("o1")), Obj("orderId" :> Str("")),
          Obj("orderId" :> Str("o1") @@ "extra" :> Str("x"))}
    [] name = "update-order" ->
         {Obj("id" :> Str("o1")),
          Obj("id" :> Str("o1") @@ "email" :> Str("not-an-email")),
          Obj("id" :> Str("o1") @@ "email" :> Str("a@b.com")),
          Obj("id" :> Str("o1") @@ "extra" :> Str("x"))}
    [] name = "get-customer-orders" ->
         {Obj("customerId" :> Str("abc")), Obj("customerId" :> Str("12345")),
          Obj("customerId" :> Str("12345") @@ "limit" :> Num(10)),
          Obj("customerId" :> Str("12345") @@ "limit" :> Num(0)),
          Obj("customerId" :> Str("12345") @@ "extra" :> Str("x")),
          Str("x")}
    [] name = "update-customer" ->
         {Obj("id" :> Str("abc")), Obj("id" :> Str("12345")),
          Obj("id" :> Str("12345") @@ "extra" :> Str("x"))}
    [] name = "create-product" ->
         {Obj("title" :> Str("T")),
          Obj("title" :> Str("T") @@ "status" :> Str("DRAFT")),
          Obj("title" :> Str("T") @@ "status" :> Str("ACTIVE")),
          Obj("title" :> Str("T") @@ "extra" :> Str("x")),
          Arr(<<>>)}
    [] OTHER -> {}

\* names sent that no registerTool call was made for
UnknownNames ==
  {Str("get-widgets"), Str("constructor"), Str("toString"), Str("valueOf"),
   Str("hasOwnProperty"), Str("__proto__"), Str("__lookupGetter__"),
   Str("__defineGetter__"), Num(7), Num(0 - 1), EmptyObj}

\* a JSON object with an own toString member, alone and inside an array
NoPrimitive == Obj("toString" :> Num(1))
NoPrimitiveItems == Arr(<<NoPrimitive>>)

\* names that are not strings: two whose coercion to a property key throws,
\* and an array whose coercion is a registered name
CoercedNames == {NoPrimitive, NoPrimitiveItems, Arr(<<Str("get-products")>>)}

\* arguments for the Object.prototype methods that take a property key
KeyArgs == {NoPrimitive, NoPrimitiveItems, Arr(<<Str("get-products")>>)}

\* falsy names
FalsyNames == {Undef, Null, Str(""), Num(0)}

\* the request bodies express.json() hands to the route handler; a request
\* without a JSON body has req.body undefined or {} depending on the express
\* major version installed
HttpBodies ==
  {Undef, EmptyObj,
   Body(Str("tools/list"), Undef), Body(Str("tools/list"), Params(Str("get-products"), Undef)),
   Body(Str("initialize"), Undef), Body(Num(1), Undef),
   Body(Str("tools/call"), Undef), Body(Str("tools/call"), Null),
   Body(Str("tools/call"), Str("x"))}
  \cup {Body(Str("tools/call"), Params(n, a)) :
          n \in FalsyNames, a \in {Undef, Obj("limit" :> Num(5))}}
  \cup {Body(Str("tools/call"), Params(n, a)) :
          n \in UnknownNames, a \in {Undef, Obj("limit" :> Num(5))}}
  \cup {Body(Str("tools/call"), Params(n, a)) :
          n \in CoercedNames, a \in {Undef, Obj("limit" :> Num(5))}}
  \cup {Body(Str("tools/call"), Params(Str(n), a)) :
          n \in {"hasOwnProperty", "propertyIsEnumerable", "__lookupGetter__"},
          a \in KeyArgs}
  \cup UNION {{Body(Str("tools/call"), Params(Str(n), a)) : a \in CommonArgs \cup ArgsOf(n)} :
                n \in McpToolNames}

\* the argument values the protocol runtime is called with
McpArgs(name) == {Undef, EmptyObj} \cup ArgsOf(name)

\* values an execute call returns: JSON data
Results ==
  {Arr(<<Str("p1"), Str("p2")>>), Obj("orders" :> Arr(<<>>))}

\* values an execute call throws: an Error, a string, null
Thrown == {ErrorObj("Error", "GraphQL request failed"), Str("boom"), Null}

---------------------------------------------------------------------------
(* State.                                                                  *)
(* toolHandlers: the registry, a sequence of [name, handler] in key order. *)
(* conn[c]: the request of connection c and how far it got.                *)

Idle ==
  [pc |-> "idle", fe |-> "none", req |-> None, unit |-> "none", execInput |-> None,
   execCount |-> 0, calls |-> 0, outcome |-> None, nresp |-> 0, resp |-> None,
   unhandled |-> FALSE]

\* the slot of a request `req` on front end `fe` after the step r of its handling
Slot(fe, req, prev, r, outcome) ==
  CASE r.k = "await" ->
         [pc |-> "awaiting", fe |-> fe, req |-> req, unit |-> r.unit,
          execInput |-> r.input, execCount |-> prev.execCount + 1,
          calls |-> prev.calls + r.calls, outcome |-> None, nresp |-> prev.nresp,
          resp |-> None, unhandled |-> FALSE]
    [] r.k = "respond" ->
         [pc |-> "done", fe |-> fe, req |-> req, unit |-> prev.unit,
          execInput |-> prev.execInput, execCount |-> prev.execCount,
          calls |-> prev.calls + r.calls, outcome |-> outcome, nresp |-> prev.nresp + 1,
          resp |-> [status |-> r.status, body |-> r.body], unhandled |-> FALSE]
    [] r.k = "unhandled" ->
         [pc |-> "done", fe |-> fe, req |-> req, unit |-> prev.unit,
          execInput |-> prev.execInput, execCount |-> prev.execCount,
          calls |-> prev.calls + r.calls, outcome |-> outcome, nresp |-> prev.nresp,
          resp |-> None, unhandled |-> TRUE]
    [] r.k \in {"invalid", "result", "toolError"} ->
         [pc |-> "done", fe |-> fe, req |-> req, unit |-> prev.unit,
          execInput |-> prev.execInput, execCount |-> prev.execCount,
          calls |-> prev.calls + r.calls, outcome |-> outcome, nresp |-> prev.nresp + 1,
          resp |-> [kind |-> r.k], unhandled |-> FALSE]

Init ==
  /\ toolHandlers = StartupRegistry
  /\ conn = [c \in 1..NReq |-> Idle]

InitConc ==
  /\ toolHandlers = StartupRegistry
  /\ conn = [c \in 1..NConc |-> Idle]

\* the route handler blocking the event loop while an executor runs: no
\* request is taken while another is in its executor
CanAcceptOnlyWhenQuiet(c) ==
  /\ conn[c].pc = "idle"
  /\ \A d \in DOMAIN conn : conn[d].pc # "awaiting"

\* connection c can hand a request to the route handler: the handler is async
\* and awaits the tool call, so a suspended request does not hold the event
\* loop and only the connection's own exchange has to be over
CanAccept(c) == conn[c].pc = "idle"

\* POST /mcp arrives on connection c with the parsed body `body`
AcceptHttp(c, body) ==
  /\ CanAccept(c)
  /\ conn' = [conn EXCEPT ![c] = Slot("http", body, Idle, RouteSync(toolHandlers, body), None)]
  /\ UNCHANGED toolHandlers

\* the protocol runtime receives a call of the operation `name`
McpToolCall(c, name, rawArgs) ==
  /\ CanAccept(c)
  /\ conn' = [conn EXCEPT ![c] =
                Slot("mcp", [tool |-> name, arguments |-> rawArgs], Idle,
                     McpCallSync(name, rawArgs), None)]
  /\ UNCHANGED toolHandlers

\* a failed execute call is called again instead of being reported
ExecutorThrowsRetry(c, e) ==
  /\ conn[c].pc = "awaiting"
  /\ conn[c].execCount < 2
  /\ conn' = [conn EXCEPT ![c].execCount = @ + 1]
  /\ UNCHANGED toolHandlers

\* the execute call of connection c throws e (its promise rejects): the
\* closure rejects with e, and the route handler's inner catch runs
ExecutorThrows(c, e) ==
  /\ conn[c].pc = "awaiting"
  /\ conn' = [conn EXCEPT ![c] =
                Slot(conn[c].fe, conn[c].req, conn[c],
                     IF conn[c].fe = "http" THEN InnerCatch(e)
                     ELSE [k |-> "toolError", calls |-> 0],
                     [k |-> "threw", v |-> e])]
  /\ UNCHANGED toolHandlers

\* the execute call of connection c returns result: the closure wraps it and
\* the route handler sends it with res.json
ExecutorReturns(c, result) ==
  /\ conn[c].pc = "awaiting"
  /\ conn' = [conn EXCEPT ![c] =
                Slot(conn[c].fe, conn[c].req, conn[c],
                     IF conn[c].fe = "http" THEN Respond(200, HandlerResult(result))
                     ELSE [k |-> "result", calls |-> 0],
                     [k |-> "returned", v |-> result])]
  /\ UNCHANGED toolHandlers

\* the exchange on connection c is over; the connection takes a new request
Close(c) ==
  /\ conn[c].pc = "done"
  /\ conn' = [conn EXCEPT ![c] = Idle]
  /\ UNCHANGED toolHandlers

Next ==
  \/ \E c \in DOMAIN conn : \E body \in HttpBodies : AcceptHttp(c, body)
  \/ \E c \in DOMAIN conn : \E name \in McpToolNames : \E rawArgs \in McpArgs(name) :
       McpToolCall(c, name, rawArgs)
  \/ \E c \in DOMAIN conn : \E result \in Results : ExecutorReturns(c, result)
  \/ \E c \in DOMAIN conn : \E e \in Thrown : ExecutorThrows(c, e)
  \/ \E c \in DOMAIN conn : Close(c)

Spec == Init /\ [][Next]_vars

\* the requests of the concurrency specification
ConcBodies ==
  {Body(Str("tools/list"), Undef), Body(Str("initialize"), Undef),
   Body(Str("tools/call"), Params(Undef, EmptyObj)),
   Body(Str("tools/call"), Params(Str("get-widgets"), EmptyObj)),
   Body(Str("tools/call"), Params(Str("get-products"), EmptyObj)),
   Body(Str("tools/call"), Params(Str("get-products"), Obj("limit" :> Num(5)))),
   Body(Str("tools/call"), Params(Str("create-product"), Obj("title" :> Str("T"))))}

NextConc ==
  \/ \E c \in DOMAIN conn : \E body \in ConcBodies : AcceptHttp(c, body)
  \/ \E c \in DOMAIN conn : \E result \in Results : ExecutorReturns(c, result)
  \/ \E c \in DOMAIN conn : \E e \in Thrown : ExecutorThrows(c, e)
  \/ \E c \in DOMAIN conn : Close(c)

SpecConc == InitConc /\ [][NextConc]_vars

---------------------------------------------------------------------------
(* Vocabulary of the properties.                                           *)

Done(c) == conn[c].pc = "done"
Started(c) == conn[c].pc # "idle"
Http(c) == conn[c].fe = "http"
Mcp(c) == conn[c].fe = "mcp"

\* method, params.name and params.arguments as the client sent them
ReqMethod(c) == Prop(conn[c].req, "method")
ReqParams(c) == Prop(conn[c].req, "params")
ReqName(c) == Prop(ReqParams(c), "name")
ReqArgs(c) == Prop(ReqParams(c), "arguments")

\* the names passed to registerTool at startup
RegisteredNames == {StartupRegistrations[i][1] : i \in DOMAIN StartupRegistrations}

\* a tools/call request whose name is a registered tool name
RegisteredCall(c) ==
  /\ Http(c)
  /\ ReqMethod(c) = Str("tools/call")
  /\ ReqName(c).t = "string"
  /\ ReqName(c).s \in RegisteredNames

\* a tools/call request whose name, as the property key toolHandlers[name]
\* looks up, is a registered tool name
AddressesRegistered(c) ==
  /\ Http(c)
  /\ ReqMethod(c) = Str("tools/call")
  /\ Truthy(ReqName(c))
  /\ ToStr(ReqName(c)).k = "return"
  /\ ToStr(ReqName(c)).s \in RegisteredNames

\* the tool a started request addresses, and the arguments sent, on either
\* front end
CallsTool(c, name) ==
  \/ RegisteredCall(c) /\ ReqName(c) = Str(name)
  \/ Mcp(c) /\ conn[c].req.tool = name
SentArgs(c) == IF Http(c) THEN ReqArgs(c) ELSE conn[c].req.arguments

\* the tool set and the declared defaults of the specification
SpecToolNames ==
  {"get-products", "get-product-by-id", "get-customers", "get-orders",
   "get-order-by-id", "update-order", "get-customer-orders", "update-customer",
   "create-product"}
SpecDefaults(name) ==
  CASE name \in {"get-products", "get-customers", "get-customer-orders"} ->
         "limit" :> Num(10)
    [] name = "get-orders" -> "status" :> Str("any") @@ "limit" :> Num(10)
    [] name = "create-product" -> "status" :> Str("DRAFT")
    [] OTHER -> <<>>
LimitTools == {"get-products", "get-customers", "get-orders", "get-customer-orders"}

\* two executor inputs with the same value for every field
SameInput(x, y) == \A k \in Keys(x) \cup Keys(y) : Prop(x, k) = Prop(y, k)

\* the input the executor gets when tool `name` is called on front end fe
\* with the argument object a
ExecInputFor(fe, name, a) ==
  IF fe = "http" THEN HandlerInput(McpUnit(name), ToolArgs(a))
  ELSE ZodParse(ZObject(McpSchema(name)), a).v

---------------------------------------------------------------------------
(* C1 *)

\* C1 (as claimed): a tools/call whose name is any non-empty string that was
\* never passed to registerTool is answered 404 { error: "Tool '<name>' not
\* found" }, and nothing is invoked for it.
C1_UnknownNameIs404 ==
  \A c \in DOMAIN conn :
    ( /\ Http(c) /\ Started(c)
      /\ ReqMethod(c) = Str("tools/call")
      /\ ReqName(c).t = "string"
      /\ ReqName(c).s # ""
      /\ ReqName(c).s \notin RegisteredNames )
    => /\ Done(c)
       /\ conn[c].resp = [status |-> 404,
                          body |-> Obj("error" :> Str("Tool '" \o ReqName(c).s \o "' not found"))]
       /\ conn[c].calls = 0
       /\ conn[c].execCount = 0

---------------------------------------------------------------------------
(* C2 *)

\* C2: a tools/call without params or without params.name is answered 400
\* with exactly { error: "Tool name is required" }, whatever the arguments,
\* and nothing is invoked for it.
C2_MissingNameIs400 ==
  \A c \in DOMAIN conn :
    ( /\ Http(c) /\ Started(c)
      /\ ReqMethod(c) = Str("tools/call")
      /\ (ReqParams(c) = Undef \/ ReqName(c) = Undef) )
    => /\ Done(c)
       /\ conn[c].resp = [status |-> 400,
                          body |-> Obj("error" :> Str("Tool name is required"))]
       /\ conn[c].calls = 0
       /\ conn[c].execCount = 0

\* a request that has arguments but no name was answered 400
C2_Witness ==
  \E c \in DOMAIN conn :
    /\ Http(c) /\ Done(c)
    /\ ReqMethod(c) = Str("tools/call")
    /\ ReqName(c) = Undef
    /\ ReqArgs(c) = Obj("limit" :> Num(5))
    /\ conn[c].resp.status = 400

---------------------------------------------------------------------------
(* C3 *)

\* the text a client must find in the content of a successful call: the JSON
\* text of each result of the model, written out
ExpectedText(result) ==
  CASE result = Arr(<<Str("p1"), Str("p2")>>) -> "[\"p1\",\"p2\"]"
    [] result = Obj("orders" :> Arr(<<>>)) -> "{\"orders\":[]}"

\* every started request is answered at most once, an answered one exactly
\* once, and no exception leaves the route handler
ExactlyOneResponse(c) ==
  /\ ~conn[c].unhandled
  /\ conn[c].pc = "awaiting" => conn[c].nresp = 0
  /\ Done(c) => conn[c].nresp = 1 /\ conn[c].resp # None

\* a registered call whose executor returned is answered 200 with the whole
\* result as the text of its content
ReturnedIs200(c) ==
  (RegisteredCall(c) /\ Done(c) /\ conn[c].outcome.k = "returned")
  => conn[c].resp =
       [status |-> 200,
        body |-> Obj("content" :>
                   Arr(<< Obj("type" :> Str("text")
                              @@ "text" :> Str(ExpectedText(conn[c].outcome.v))) >>))]

\* a tools/call request whose name cannot be made a property key
NameCoercionThrows(c) ==
  /\ ReqMethod(c) = Str("tools/call")
  /\ Truthy(ReqName(c))
  /\ ToStr(ReqName(c)).k = "throw"

\* a request the handler could not even take apart, or whose name it could
\* not look up, is answered 500 with { error: message }
OtherExceptionIs500(c) ==
  (Http(c) /\ Done(c) /\ (conn[c].req \in {Undef, Null} \/ NameCoercionThrows(c)))
  => /\ conn[c].resp.status = 500
     /\ Keys(conn[c].resp.body) = {"error"}
     /\ conn[c].resp.body.f["error"].t = "string"
     /\ conn[c].calls = 0

\* C3 (as claimed): exactly one response and never an unhandled exception;
\* a registered call is answered 200 with the executor's full result when the
\* executor returns, and 500 with { error, details } when it throws anything;
\* any other exception becomes 500 { error: message }.
C3_OneResponsePerRequest ==
  \A c \in DOMAIN conn :
    Http(c) =>
      /\ ExactlyOneResponse(c)
      /\ ReturnedIs200(c)
      /\ (RegisteredCall(c) /\ Done(c) /\ conn[c].outcome.k = "threw")
         => /\ conn[c].resp.status = 500
            /\ Keys(conn[c].resp.body) = {"error", "details"}
      /\ OtherExceptionIs500(c)

\* C3 (amended): as C3, but the 500 body depends on the thrown value: error
\* is its message when that is a non-empty string and "Tool execution
\* failed" otherwise, details is its stack and is left out when it has none,
\* and a thrown null or undefined is answered { error: <message of the
\* TypeError raised in the catch block> } without details.
C3_OneResponsePerRequestAmended ==
  \A c \in DOMAIN conn :
    Http(c) =>
      /\ ExactlyOneResponse(c)
      /\ ReturnedIs200(c)
      /\ (RegisteredCall(c) /\ Done(c) /\ conn[c].outcome.k = "threw")
         => LET e == conn[c].outcome.v
                body == conn[c].resp.body
            IN /\ conn[c].resp.status = 500
               /\ IF e \in {Null, Undef}
                  THEN body = Obj("error" :> Str("Cannot read properties of " \o e.t
                                                  \o " (reading 'message')"))
                  ELSE /\ Prop(body, "error") =
                            (IF Prop(e, "message").t = "string" /\ Prop(e, "message").s # ""
                             THEN Prop(e, "message") ELSE Str("Tool execution failed"))
                       /\ Prop(body, "details") = Prop(e, "stack")
                       /\ Keys(body) = {"error"} \cup
                            (IF Prop(e, "stack") = Undef THEN {} ELSE {"details"})
      /\ OtherExceptionIs500(c)

\* a registered call whose executor threw null was answered 500
C3_Witness ==
  \E c \in DOMAIN conn :
    /\ RegisteredCall(c) /\ Done(c)
    /\ conn[c].outcome = [k |-> "threw", v |-> Null]
    /\ conn[c].resp.status = 500
    /\ conn[c].nresp = 1

---------------------------------------------------------------------------
(* C4 *)

\* the tools member of a tools/list response body
ListedTools(c) == Prop(conn[c].resp.body, "tools").items

\* C4: whatever requests came before, tools/list is answered 200 with exactly
\* one { name, description } entry per startup tool name (the nine names, no
\* duplicate, name and description non-empty), the list of an empty registry
\* is empty, and the registry never changes: no entry is added, removed or
\* replaced, and no name occurs twice.
C4_ListIsTheStartupRegistry ==
  /\ \A c \in DOMAIN conn :
       (Http(c) /\ Started(c) /\ ReqMethod(c) = Str("tools/list"))
       => /\ Done(c)
          /\ conn[c].resp.status = 200
          /\ Keys(conn[c].resp.body) = {"tools"}
          /\ Len(ListedTools(c)) = Cardinality(SpecToolNames)
          /\ {ListedTools(c)[i].f["name"].s : i \in DOMAIN ListedTools(c)} = SpecToolNames
          /\ \A i \in DOMAIN ListedTools(c) :
               /\ Keys(ListedTools(c)[i]) = {"name", "description"}
               /\ Len(ListedTools(c)[i].f["name"].s) > 0
               /\ Len(ListedTools(c)[i].f["description"].s) > 0
          /\ conn[c].execCount = 0
  /\ ToolsList(<<>>).status = 200
  /\ ToolsList(<<>>).body = Obj("tools" :> Arr(<<>>))
  /\ Len(toolHandlers) = Cardinality(SpecToolNames)
  /\ {toolHandlers[i].name : i \in DOMAIN toolHandlers} = SpecToolNames
  /\ \A i, j \in DOMAIN toolHandlers :
       toolHandlers[i].name = toolHandlers[j].name => i = j
  /\ \A i \in DOMAIN toolHandlers :
       toolHandlers[i].handler = McpUnit(toolHandlers[i].name)

\* a tools/list request was answered with nine entries
C4_Witness ==
  \E c \in DOMAIN conn :
    /\ Http(c) /\ Done(c)
    /\ ReqMethod(c) = Str("tools/list")
    /\ conn[c].resp.status = 200
    /\ Len(ListedTools(c)) = 9

---------------------------------------------------------------------------
(* C5 *)

\* C5 (as claimed): on each front end and for each tool, a call whose argument
\* object omits every defaulted field gives the executor the same input as the
\* call with those fields set to the declared defaults.
C5_DefaultFillIsIdempotent ==
  \A c \in DOMAIN conn : \A name \in SpecToolNames :
    ( /\ Started(c)
      /\ CallsTool(c, name)
      /\ conn[c].execCount = 1
      /\ SentArgs(c).t = "object"
      /\ Keys(SentArgs(c)) \cap DOMAIN SpecDefaults(name) = {} )
    => SameInput(conn[c].execInput,
                 ExecInputFor(conn[c].fe, name,
                              Obj(SpecDefaults(name) @@ SentArgs(c).f)))

---------------------------------------------------------------------------
(* C6 *)

\* C6: a tools/call of a tool with a limit argument calls the executor with
\* limit 10 when the arguments omit limit (arguments absent, null or not an
\* object included), and with the supplied limit when it is a number.
C6_LimitDefaultsTo10 ==
  \A c \in DOMAIN conn :
    (RegisteredCall(c) /\ Started(c) /\ ReqName(c).s \in LimitTools)
    => /\ conn[c].execCount = 1
       /\ "limit" \notin Keys(ReqArgs(c)) => Prop(conn[c].execInput, "limit") = Num(10)
       /\ Prop(ReqArgs(c), "limit").t = "number"
          => Prop(conn[c].execInput, "limit") = Prop(ReqArgs(c), "limit")

\* get-customer-orders was called with arguments null and its executor got
\* limit 10
C6_Witness ==
  \E c \in DOMAIN conn :
    /\ RegisteredCall(c) /\ Started(c)
    /\ ReqName(c) = Str("get-customer-orders")
    /\ ReqArgs(c) = Null
    /\ conn[c].execCount = 1
    /\ Prop(conn[c].execInput, "limit") = Num(10)

---------------------------------------------------------------------------
(* C7 *)

\* the customer id argument of the two tools that take one
CustomerIdField(name) == IF name = "get-customer-orders" THEN "customerId" ELSE "id"

\* C7 (as claimed): on both front ends get-customer-orders and update-customer
\* with the id "abc" never reach the executor (the call is rejected), and with
\* the id "12345" they do.
C7_NonNumericIdRejected ==
  \A c \in DOMAIN conn : \A name \in {"get-customer-orders", "update-customer"} :
    (Started(c) /\ CallsTool(c, name))
    => /\ Prop(SentArgs(c), CustomerIdField(name)) = Str("abc")
          => conn[c].execCount = 0 /\ Done(c) /\ conn[c].outcome = None
       /\ Prop(SentArgs(c), CustomerIdField(name)) = Str("12345")
          => conn[c].execCount = 1

---------------------------------------------------------------------------
(* C8 *)

\* C8 (as claimed): a field of the arguments that the tool's schema does not
\* declare is not in the input the executor gets.
C8_UndeclaredFieldsDropped ==
  \A c \in DOMAIN conn : \A name \in SpecToolNames :
    (RegisteredCall(c) /\ ReqName(c) = Str(name) /\ conn[c].execCount = 1)
    => \A k \in Keys(ReqArgs(c)) :
         k \notin DOMAIN McpSchema(name) => k \notin Keys(conn[c].execInput)

---------------------------------------------------------------------------
(* C9 *)

\* C9: while requests are suspended in their executors, every idle connection
\* can still be accepted and every suspended request can still be completed,
\* and two answered requests with the same body and the same executor outcome
\* have the same response whatever the other connections did meanwhile.
C9_RequestsAreIndependent ==
  /\ \A c \in DOMAIN conn :
       conn[c].pc = "idle" => ENABLED (\E body \in ConcBodies : AcceptHttp(c, body))
  /\ \A c \in DOMAIN conn :
       conn[c].pc = "awaiting"
       => /\ ENABLED (\E result \in Results : ExecutorReturns(c, result))
          /\ ENABLED (\E e \in Thrown : ExecutorThrows(c, e))
  /\ \A c, d \in DOMAIN conn :
       (Done(c) /\ Done(d) /\ conn[c].req = conn[d].req /\ conn[c].outcome = conn[d].outcome)
       => conn[c].resp = conn[d].resp /\ conn[c].execInput = conn[d].execInput

\* a tools/list was answered on one connection while a tool call on another
\* is suspended in its executor
C9_Witness ==
  \E c, d \in DOMAIN conn :
    /\ c # d
    /\ conn[c].pc = "awaiting"
    /\ Done(d) /\ ReqMethod(d) = Str("tools/list") /\ conn[d].resp.status = 200

---------------------------------------------------------------------------
(* C10 *)

\* C10: the executor is invoked once for a tools/call with a registered name
\* (a name that toolHandlers[name] looks up as a registered key) and never
\* for any other request, and a failed invocation is followed by the
\* 500 response, not by a second invocation.
C10_ExecutorAtMostOnce ==
  \A c \in DOMAIN conn :
    (Http(c) /\ Started(c))
    => /\ conn[c].execCount = (IF AddressesRegistered(c) THEN 1 ELSE 0)
       /\ (conn[c].pc = "awaiting" \/ conn[c].outcome # None) => AddressesRegistered(c)
       /\ conn[c].outcome # None /\ conn[c].outcome.k = "threw"
          => Done(c) /\ conn[c].resp.status = 500 /\ conn[c].nresp = 1

\* an executor threw, was not called again, and the request was answered 500
C10_Witness ==
  \E c \in DOMAIN conn :
    /\ RegisteredCall(c) /\ Done(c)
    /\ conn[c].outcome.k = "threw"
    /\ conn[c].execCount = 1
    /\ conn[c].resp.status = 500

=============================================================================
